---- MODULE Spec2Model ----
(***************************************************************************)
(* A model of the generic document repository EntityRepository             *)
(* (src/src/app.module.ts): the transactional updateById with its          *)
(* optimistic version check, the try/catch wrappers of the store           *)
(* operations, the error normalisation handleDatabaseError, and the        *)
(* paginated reads with their separate count, the reads of one document,   *)
(* create under a unique index, the transactions handed to the caller,     *)
(* and the pagination-parameters parser (src/unnamed/part_004).            *)
(*                                                                         *)
(* The store behind the repository (MongoDB through mongoose) is modelled  *)
(* by what the repository relies on: a collection of documents, sessions   *)
(* with snapshot transactions in which the second writer of a document     *)
(* gets a write conflict, and store calls that may fail.                   *)
(***************************************************************************)
EXTENDS Integers, Sequences, FiniteSets, TLC

VARIABLES
    docs,        \* the collection: id -> document (or NoDoc)
    docs0,       \* the collection before the run of the updateById calls
    lock,        \* id -> the call whose open transaction wrote it (or NoCall)
    pc,          \* call -> position inside updateById
    arg,         \* call -> [id, update]
    session,     \* call -> the session of the call
    existingDoc, \* call -> the document read inside the session
    updatedDoc,  \* call -> the document written inside the transaction
    stale,       \* call -> a commit changed the document after the call read it
    caught,      \* call -> the error the catch block received
    faults,      \* call -> the steps at which the store failed the call
    result,      \* call -> what updateById returned or threw
    stored,      \* call -> the collection's document right after the commit
    errLogger,   \* options.errLogger
    opres,       \* the last single-step repository operation and its result
    connection,  \* options.connection was supplied at construction
    client,      \* call -> the session held from start(Client)Transaction
    paging,      \* the paginated read between its page query and its count
    creating,    \* call -> the create call waiting for the store's save
    req,         \* the query of the request the pagination parser is given
    users        \* UsersService.users: the in-memory list of users

vars == <<docs, docs0, lock, pc, arg, session, existingDoc, updatedDoc, stale,
          caught, faults, result, stored, errLogger, opres,
          connection, client, paging, creating, req, users>>

extVars == <<connection, client, paging, creating, req, users>>

updVars == <<lock, pc, arg, session, existingDoc, updatedDoc, stale,
             caught, faults, result, stored>>

----------------------------------------------------------------------------
(* Bounds *)

MaxId == 2
MaxVersion == 1

Ids == 1..MaxId
Versions == 0..MaxVersion

\* The values of the one caller-supplied field of a document.
Vals == {"a", "b"}

\* The two concurrent callers of updateById.
Calls == {"A", "B"}
NoCall == "none"

----------------------------------------------------------------------------
(* Documents *)

NoDoc == [present |-> FALSE, v |-> 0, val |-> "", deleted |-> FALSE]

Doc(version, value, del) ==
    [present |-> TRUE, v |-> version, val |-> value, deleted |-> del]

Documents == {Doc(n, x, d) : n \in Versions, x \in Vals, d \in BOOLEAN}

\* An update payload: a new value of the field and, when hasV, a version __v.
NoVersion == [hasV |-> FALSE, v |-> 0, val |-> "b"]
Updates == {NoVersion} \cup [hasV : {TRUE}, v : Versions, val : {"b"}]

----------------------------------------------------------------------------
(* Errors *)

HttpStatus_BAD_REQUEST == 400
HttpStatus_NOT_FOUND == 404
HttpStatus_CONFLICT == 409
HttpStatus_INTERNAL_SERVER_ERROR == 500

NoError == [kind |-> "none", response |-> "", status |-> 0, code |-> 0, key |-> "", value |-> ""]

\* new HttpException(response, status)
HttpException(response, status) ==
    [kind |-> "HttpException", response |-> response, status |-> status,
     code |-> 0, key |-> "", value |-> ""]

\* A raw error of the store driver: it has a code (0: none) and, for a
\* duplicate key, the offending key and value; it has no response.
StoreError(code, key, value) ==
    [kind |-> "StoreError", response |-> "", status |-> 0,
     code |-> code, key |-> key, value |-> value]

\* The store's answer to the second writer of a document (MongoDB code 112).
WriteConflict == StoreError(112, "", "")
StoreFailure == StoreError(0, "", "")

----------------------------------------------------------------------------
(* updateById: lines 538-583 *)

NoResult == [kind |-> "pending", doc |-> NoDoc, exc |-> NoError]
Returned(doc) == [kind |-> "returned", doc |-> doc, exc |-> NoError]
Thrown(exc) == [kind |-> "thrown", doc |-> NoDoc, exc |-> exc]

NoSession == [started |-> FALSE, txn |-> "none", ended |-> FALSE]

\* VersionMismatch without the guard on update.__v: an absent version differs
\* from every stored one.
VersionMismatchUnguarded(update, existing) ==
    ~update.hasV \/ existing.v # update.v

\* update.__v && existingDoc.__v !== update.__v      (line 555)
VersionMismatch(update, existing) ==
    /\ update.hasV
    /\ update.v # 0
    /\ existing.v # update.v

\* NextVersion without the increment: the version is written back as read.
NextVersionUnchanged(existing) == existing.v

\* existingDoc.__v + 1                                (line 562)
NextVersion(existing) == existing.v + 1

\* { ...update, __v: existingDoc.__v + 1 } applied to the document
ApplyUpdate(existing, update) ==
    [existing EXCEPT !.val = update.val, !.v = NextVersion(existing)]

NotFoundMessage(id) == "No data found with ID " \o ToString(id)

\* Rethrow without its first branch: the not-found sentinel is not recognised.
RethrowConflictOnly(error, id) ==
    IF error.response = "CONFLICT"
    THEN Thrown(HttpException("Concurrency conflict", HttpStatus_CONFLICT))
    ELSE Returned(NoDoc)

\* The tail of the catch block: what leaves updateById after abort and end
\* (lines 573-582); falling off the end returns undefined.
Rethrow(error, id) ==
    IF error.response = "NOT_FOUND"
    THEN Thrown(HttpException(NotFoundMessage(id), HttpStatus_NOT_FOUND))
    ELSE IF error.response = "CONFLICT"
    THEN Thrown(HttpException("Concurrency conflict", HttpStatus_CONFLICT))
    ELSE Returned(NoDoc)

Invoke(c, id, update) ==
    /\ pc[c] = "idle"
    /\ arg' = [arg EXCEPT ![c] = [id |-> id, update |-> update]]
    /\ pc' = [pc EXCEPT ![c] = "start"]
    /\ UNCHANGED <<docs, docs0, lock, session, existingDoc, updatedDoc, stale,
                   caught, faults, result, stored, errLogger, opres, extVars>>

\* startSession(); session.startTransaction()        (lines 542-543)
StartSession(c, ok) ==
    /\ pc[c] = "start"
    /\ IF ok
       THEN /\ session' = [session EXCEPT ![c] =
                   [started |-> TRUE, txn |-> "active", ended |-> FALSE]]
            /\ pc' = [pc EXCEPT ![c] = "read"]
            /\ UNCHANGED <<result, faults>>
       ELSE /\ result' = [result EXCEPT ![c] = Thrown(StoreFailure)]
            /\ faults' = [faults EXCEPT ![c] = @ \cup {"start"}]
            /\ pc' = [pc EXCEPT ![c] = "done"]
            /\ UNCHANGED session
    /\ UNCHANGED <<docs, docs0, lock, arg, existingDoc, updatedDoc, stale,
                   caught, stored, errLogger, opres, extVars>>

\* findById(id).session(session), then the two checks (lines 546-558)
ReadDoc(c, ok) ==
    /\ pc[c] = "read"
    /\ IF ok
       THEN LET d == docs[arg[c].id] IN
            /\ existingDoc' = [existingDoc EXCEPT ![c] = d]
            /\ stale' = [stale EXCEPT ![c] = FALSE]
            /\ UNCHANGED faults
            /\ IF ~d.present
               THEN /\ caught' = [caught EXCEPT ![c] =
                           HttpException("NOT_FOUND", HttpStatus_NOT_FOUND)]
                    /\ pc' = [pc EXCEPT ![c] = "abort"]
               ELSE IF VersionMismatch(arg[c].update, d)
               THEN /\ caught' = [caught EXCEPT ![c] =
                           HttpException("CONFLICT", HttpStatus_CONFLICT)]
                    /\ pc' = [pc EXCEPT ![c] = "abort"]
               ELSE /\ pc' = [pc EXCEPT ![c] = "update"]
                    /\ UNCHANGED caught
       ELSE /\ caught' = [caught EXCEPT ![c] = StoreFailure]
            /\ faults' = [faults EXCEPT ![c] = @ \cup {"read"}]
            /\ pc' = [pc EXCEPT ![c] = "abort"]
            /\ UNCHANGED <<existingDoc, stale>>
    /\ UNCHANGED <<docs, docs0, lock, arg, session, updatedDoc, result, stored,
                   errLogger, opres, extVars>>

\* findByIdAndUpdate(id, {...update, __v: existingDoc.__v + 1},
\*                   {new: true, session})            (lines 560-564)
\* The store refuses the write with a write conflict when another open
\* transaction wrote the document, or one committed a write to it after this
\* transaction read it.
UpdateDoc(c, ok) ==
    /\ pc[c] = "update"
    /\ LET id == arg[c].id IN
       IF ~ok
       THEN /\ caught' = [caught EXCEPT ![c] = StoreFailure]
            /\ faults' = [faults EXCEPT ![c] = @ \cup {"update"}]
            /\ pc' = [pc EXCEPT ![c] = "abort"]
            /\ UNCHANGED <<updatedDoc, lock>>
       ELSE IF lock[id] \notin {NoCall, c} \/ stale[c]
       THEN /\ caught' = [caught EXCEPT ![c] = WriteConflict]
            /\ pc' = [pc EXCEPT ![c] = "abort"]
            /\ UNCHANGED <<updatedDoc, lock, faults>>
       ELSE /\ updatedDoc' = [updatedDoc EXCEPT ![c] =
                   ApplyUpdate(existingDoc[c], arg[c].update)]
            /\ lock' = [lock EXCEPT ![id] = c]
            /\ pc' = [pc EXCEPT ![c] = "commit"]
            /\ UNCHANGED <<caught, faults>>
    /\ UNCHANGED <<docs, docs0, arg, session, existingDoc, stale, result,
                   stored, errLogger, opres, extVars>>

\* await session.commitTransaction(); session.endSession();
\* return updatedDoc                                  (lines 566-569)
\* endSession() is not awaited: when it fails (~endOk), the failure reaches
\* nobody.
Commit(c, ok, endOk) ==
    /\ pc[c] = "commit"
    /\ LET id == arg[c].id IN
       IF ok
       THEN /\ docs' = [docs EXCEPT ![id] = updatedDoc[c]]
            /\ stored' = [stored EXCEPT ![c] = updatedDoc[c]]
            /\ lock' = [lock EXCEPT ![id] = NoCall]
            /\ stale' = [o \in Calls |->
                   IF o # c /\ pc[o] \in {"update", "commit"} /\ arg[o].id = id
                   THEN TRUE ELSE stale[o]]
            /\ session' = [session EXCEPT ![c] =
                   [started |-> TRUE, txn |-> "committed", ended |-> TRUE]]
            /\ faults' = [faults EXCEPT ![c] =
                   IF endOk THEN @ ELSE @ \cup {"end"}]
            /\ result' = [result EXCEPT ![c] = Returned(updatedDoc[c])]
            /\ pc' = [pc EXCEPT ![c] = "done"]
            /\ UNCHANGED caught
       ELSE /\ endOk
            /\ caught' = [caught EXCEPT ![c] = StoreFailure]
            /\ faults' = [faults EXCEPT ![c] = @ \cup {"commit"}]
            /\ pc' = [pc EXCEPT ![c] = "abort"]
            /\ UNCHANGED <<docs, stored, lock, stale, session, result>>
    /\ UNCHANGED <<docs0, arg, existingDoc, updatedDoc, errLogger, opres, extVars>>

\* catch (error) { await session.abortTransaction(); session.endSession();
\*                 ... }                              (lines 570-582)
\* A failing abortTransaction() throws out of the catch block: endSession()
\* and the rethrow are skipped.
Abort(c, ok, endOk) ==
    /\ pc[c] = "abort"
    /\ LET id == arg[c].id IN
       IF ok
       THEN /\ lock' = [lock EXCEPT ![id] = IF @ = c THEN NoCall ELSE @]
            /\ session' = [session EXCEPT ![c] =
                   [started |-> TRUE, txn |-> "aborted", ended |-> TRUE]]
            /\ faults' = [faults EXCEPT ![c] =
                   IF endOk THEN @ ELSE @ \cup {"end"}]
            /\ result' = [result EXCEPT ![c] = Rethrow(caught[c], id)]
       ELSE /\ endOk
            /\ faults' = [faults EXCEPT ![c] = @ \cup {"abort"}]
            /\ result' = [result EXCEPT ![c] = Thrown(StoreFailure)]
            /\ UNCHANGED <<lock, session>>
    /\ pc' = [pc EXCEPT ![c] = "done"]
    /\ UNCHANGED <<docs, docs0, arg, existingDoc, updatedDoc, stale, caught,
                   stored, errLogger, opres, extVars>>

----------------------------------------------------------------------------
(* Error normalisation: handleDatabaseError, lines 710-749 *)

\* JSON.stringify of the one-entry object error.keyValue      (line 721)
JSONStringify(key, value) == "{\"" \o key \o "\":\"" \o value \o "\"}"

\* What an operation hands back: a value, or an exception; logged says whether
\* the logger was written to.
None == "undefined"
NormalReturn(v) == [kind |-> "returned", exc |-> NoError, value |-> v, logged |-> FALSE]
Raise(exc, logged) == [kind |-> "thrown", exc |-> exc, value |-> None, logged |-> logged]

\* ErrorMessage without case 11001: the alternate duplicate-key code falls to
\* the default.
ErrorMessageNo11001(error) ==
    CASE error.code = 11000 -> JSONStringify(error.key, error.value) \o " already exists"
      [] error.code = 12000 -> "Invalid index specification"
      [] error.code = 12010 -> "Cannot build index on a non-existing field"
      [] error.code = 12102 -> "Index key too long"
      [] error.code = 12134 -> "Index not found"
      [] OTHER -> "Database operation failed"

\* errorMessage after the switch                      (lines 717-746)
ErrorMessage(error) ==
    CASE error.code = 11000 -> JSONStringify(error.key, error.value) \o " already exists"
      [] error.code = 11001 -> "Duplicate key error"
      [] error.code = 12000 -> "Invalid index specification"
      [] error.code = 12010 -> "Cannot build index on a non-existing field"
      [] error.code = 12102 -> "Index key too long"
      [] error.code = 12134 -> "Index not found"
      [] OTHER -> "Database operation failed"

\* ErrorStatusCode without the switch: the status stays at its default.
ErrorStatusCodeDefault(error) == HttpStatus_INTERNAL_SERVER_ERROR

\* errorStatusCode after the switch                   (lines 718-746)
ErrorStatusCode(error) ==
    IF error.code \in {11000, 11001, 12000, 12010, 12102, 12134}
    THEN HttpStatus_BAD_REQUEST
    ELSE HttpStatus_INTERNAL_SERVER_ERROR

\* handleDatabaseError(error): logs when options.errLogger, then throws
HandleDatabaseError(error) ==
    Raise(HttpException(ErrorMessage(error), ErrorStatusCode(error)), errLogger)

----------------------------------------------------------------------------
(* The store's answers to one call *)

\* The raw errors the store is made to fail with: one per recognised code, one
\* without a code (0) and one with an unrecognised code.
RawErrors ==
    {StoreError(11000, "val", x) : x \in Vals}
    \cup {StoreError(n, "", "") : n \in {11001, 12000, 12010, 12102, 12134, 0, 112}}

\* A store call answers, throws while the call is being built, or returns a
\* promise that rejects.
Ok == [how |-> "ok", error |-> NoError]
Answers == {Ok} \cup [how : {"throws", "rejects"}, error : {StoreFailure}]
Outcomes == Answers \cup [how : {"rejects"}, error : RawErrors]

\* TryAwait without the await: the promise is returned as it is.
TryAwaitDropped(out, v) ==
    IF out.how = "ok" THEN NormalReturn(v)
    ELSE IF out.how = "throws" THEN HandleDatabaseError(out.error)
    ELSE Raise(out.error, FALSE)

\* try { return await <store call> } catch (err) { this.handleDatabaseError(err) }
TryAwait(out, v) ==
    IF out.how = "ok" THEN NormalReturn(v) ELSE HandleDatabaseError(out.error)

\* try { return <store call> } catch (error) { this.handleDatabaseError(error) }
\* (fullTextSearch, lines 401-408): a rejection of the returned promise is
\* not caught by the try block.
TryReturn(out, v) ==
    IF out.how = "ok" THEN NormalReturn(v)
    ELSE IF out.how = "throws" THEN HandleDatabaseError(out.error)
    ELSE Raise(out.error, FALSE)

----------------------------------------------------------------------------
(* Filters, and what the store computes *)

\* A filter: an optional condition on the field and one on deleted.
AnyFilter == [hasVal |-> FALSE, val |-> "", hasDeleted |-> FALSE, deleted |-> FALSE]
Filters ==
    { AnyFilter,
      [AnyFilter EXCEPT !.hasVal = TRUE, !.val = "a"],
      [AnyFilter EXCEPT !.hasDeleted = TRUE, !.deleted = TRUE],
      [hasVal |-> TRUE, val |-> "b", hasDeleted |-> TRUE, deleted |-> FALSE] }

\* What a failed call hands back does not depend on its filter: the failing
\* answers are drawn for one filter only.
Drawn(f, out) == out.how = "ok" \/ f = AnyFilter

Matches(d, f) ==
    /\ d.present
    /\ f.hasVal => d.val = f.val
    /\ f.hasDeleted => d.deleted = f.deleted

MatchingIds(coll, f) == {i \in DOMAIN coll : Matches(coll[i], f)}

Min(a, b) == IF a < b THEN a ELSE b

RECURSIVE SortedIds(_)
SortedIds(S) ==
    IF S = {} THEN <<>>
    ELSE LET m == CHOOSE x \in S : \A y \in S : x <= y
         IN  <<m>> \o SortedIds(S \ {m})

\* FindPage without skip(skip): the page starts at the first match.
FindPageNoSkip(coll, f, skip, limit) ==
    LET ids == SortedIds(MatchingIds(coll, f))
        last == IF limit = 0 THEN Len(ids) ELSE Min(Len(ids), limit)
    IN  [k \in 1..last |-> coll[ids[k]]]

\* find(filter).skip(skip).limit(limit): the matching documents in the
\* collection's order; limit 0 is no limit.
FindPage(coll, f, skip, limit) ==
    LET ids == SortedIds(MatchingIds(coll, f))
        last == IF limit = 0 THEN Len(ids) ELSE Min(Len(ids), skip + limit)
    IN  IF skip >= last THEN <<>>
        ELSE [k \in 1..(last - skip) |-> coll[ids[skip + k]]]

\* countDocuments(filter)
CountDocuments(coll, f) == Cardinality(MatchingIds(coll, f))

FreeIds(coll) == {i \in Ids : ~coll[i].present}

RECURSIVE Insert(_, _)
Insert(coll, values) ==
    IF values = <<>> THEN coll
    ELSE LET i == CHOOSE x \in FreeIds(coll) : \A y \in FreeIds(coll) : x <= y
         IN  Insert([coll EXCEPT ![i] = Doc(0, Head(values), FALSE)], Tail(values))

FirstId(S) == CHOOSE x \in S : \A y \in S : x <= y

\* The documents an update of the field changes
Modified(coll, ids, x) == {i \in ids : coll[i].val # x}

SetVal(coll, ids, x) ==
    [i \in Ids |-> IF i \in ids THEN [coll[i] EXCEPT !.val = x] ELSE coll[i]]

Remove(coll, ids) == [i \in Ids |-> IF i \in ids THEN NoDoc ELSE coll[i]]

----------------------------------------------------------------------------
(* The single-call operations of the repository *)

NoOp ==
    [op |-> "none", in |-> None, how |-> "ok", raw |-> NoError,
     kind |-> "returned", exc |-> NoError, value |-> None, logged |-> FALSE]

\* The record of one call: the operation, its input, the store's answer and
\* what the call handed back.
Called(op, in, out, ret) ==
    [op |-> op, in |-> in, how |-> out.how, raw |-> out.error,
     kind |-> ret.kind, exc |-> ret.exc, value |-> ret.value, logged |-> ret.logged]

\* The effect of a call on the collection: none when the store failed.
Effect(out, coll) ==
    /\ docs' = IF out.how = "ok" THEN coll ELSE docs
    /\ UNCHANGED <<docs0, errLogger>>
    /\ UNCHANGED updVars
    /\ UNCHANGED extVars

\* create(createEntity)                               (lines 101-107)
Create(x, out) ==
    /\ out.how = "ok" => FreeIds(docs) # {}
    /\ LET coll == Insert(docs, <<x>>) IN
       /\ opres' = Called("create", x, out, TryAwait(out, Doc(0, x, FALSE)))
       /\ Effect(out, coll)

\* createMany(createEntities)                         (lines 115-128)
CreateMany(xs, out) ==
    /\ out.how = "ok" => Cardinality(FreeIds(docs)) >= Len(xs)
    /\ LET coll == Insert(docs, xs) IN
       /\ opres' = Called("createMany", xs, out,
                          TryAwait(out, [k \in 1..Len(xs) |-> Doc(0, xs[k], FALSE)]))
       /\ Effect(out, coll)

\* updateOne(filterQuery, update): modifiedCount || 0 (lines 452-465)
UpdateOne(f, x, out) ==
    LET m == MatchingIds(docs, f)
        ids == IF m = {} THEN {} ELSE {FirstId(m)}
    IN  /\ Drawn(f, out)
        /\ opres' = Called("updateOne", f, out,
                           TryAwait(out, Cardinality(Modified(docs, ids, x))))
        /\ Effect(out, SetVal(docs, ids, x))

\* updateMany(filterQuery, update)                    (lines 474-487)
UpdateMany(f, x, out) ==
    LET ids == MatchingIds(docs, f)
    IN  /\ Drawn(f, out)
        /\ opres' = Called("updateMany", f, out,
                           TryAwait(out, Cardinality(Modified(docs, ids, x))))
        /\ Effect(out, SetVal(docs, ids, x))

\* findOneAndUpdate(filterQuery, updatedObject, {new, upsert: false})
\*                                                    (lines 502-528)
FindOneAndUpdate(f, x, new, out) ==
    LET m == MatchingIds(docs, f)
        ids == IF m = {} THEN {} ELSE {FirstId(m)}
        coll == SetVal(docs, ids, x)
        found == IF m = {} THEN NoDoc
                 ELSE IF new THEN coll[FirstId(m)] ELSE docs[FirstId(m)]
    IN  /\ Drawn(f, out)
        /\ opres' = Called("findOneAndUpdate", f, out, TryAwait(out, found))
        /\ Effect(out, coll)

\* deleteOne(filterQuery): deletedCount >= 1          (lines 591-599)
DeleteOne(f, out) ==
    LET m == MatchingIds(docs, f)
        ids == IF m = {} THEN {} ELSE {FirstId(m)}
    IN  /\ Drawn(f, out)
        /\ opres' = Called("deleteOne", f, out, TryAwait(out, Cardinality(ids) >= 1))
        /\ Effect(out, Remove(docs, ids))

\* deleteMany(filterQuery, options)                   (lines 607-621)
DeleteMany(f, out) ==
    LET ids == MatchingIds(docs, f)
    IN  /\ Drawn(f, out)
        /\ opres' = Called("deleteMany", f, out, TryAwait(out, Cardinality(ids) >= 1))
        /\ Effect(out, Remove(docs, ids))

\* aggregate(pipeline): the pipeline is one $match stage (lines 686-695)
Aggregate(f, out) ==
    /\ Drawn(f, out)
    /\ opres' = Called("aggregate", f, out, TryAwait(out, FindPage(docs, f, 0, 0)))
    /\ Effect(out, docs)

\* count(entityFilterQuery)                           (lines 416-424)
count(f, out) == TryAwait(out, CountDocuments(docs, f))

Count(f, out) ==
    /\ Drawn(f, out)
    /\ opres' = Called("count", f, out, count(f, out))
    /\ Effect(out, docs)

\* distinctValues(field, entityFilterQuery)           (lines 432-443)
DistinctValues(f, out) ==
    /\ Drawn(f, out)
    /\ opres' = Called("distinctValues", f, out,
                       TryAwait(out, {docs[i].val : i \in MatchingIds(docs, f)}))
    /\ Effect(out, docs)

\* fullTextSearch(searchText, searchField): { field: { $regex, $options: 'i' } }
\* on the one-letter values of the field             (lines 400-409)
Lower(t) == IF t = "A" THEN "a" ELSE IF t = "B" THEN "b" ELSE t

FullTextSearch(t, out) ==
    LET f == [AnyFilter EXCEPT !.hasVal = TRUE, !.val = Lower(t)]
    IN  /\ opres' = Called("fullTextSearch", t, out,
                           TryReturn(out, FindPage(docs, f, 0, 0)))
        /\ Effect(out, docs)

\* The list UsersService is constructed with (src/src/users/users.service.ts,
\* lines 5-34), each user by its id, its name and its role.
User(id, name, role) == [id |-> id, name |-> name, role |-> role]
InitialUsers ==
    << User(1, "John Doe", "ADMIN"), User(2, "Jane Smith", "INTERN"),
       User(3, "Sam Wilson", "ADMIN"), User(4, "Emily Davis", "INTERN") >>

\* No session held by a caller, no paginated read between its two queries, no
\* create call waiting for its save.
NoClientSession == [open |-> FALSE, txn |-> "none", ended |-> FALSE]
NoPaging ==
    [pc |-> "idle", lean |-> FALSE, filter |-> AnyFilter, skip |-> 0,
     size |-> 0, data |-> <<>>, disturbed |-> FALSE, ret |-> NormalReturn(None)]
NoCreate ==
    [pc |-> "idle", entity |-> "", held |-> FALSE, raw |-> NoError,
     ret |-> NormalReturn(None)]

NoRequest ==
    [page |-> None, size |-> None, sort |-> None, populate |-> None,
     populateSelect |-> None, filter |-> None, select |-> <<>>]

InitExt ==
    /\ connection = TRUE
    /\ client = [c \in Calls |-> NoClientSession]
    /\ paging = NoPaging
    /\ creating = [c \in Calls |-> NoCreate]
    /\ req = NoRequest
    /\ users = InitialUsers

InitUpd ==
    /\ lock = [i \in Ids |-> NoCall]
    /\ pc = [c \in Calls |-> "idle"]
    /\ arg = [c \in Calls |-> [id |-> 1, update |-> NoVersion]]
    /\ session = [c \in Calls |-> NoSession]
    /\ existingDoc = [c \in Calls |-> NoDoc]
    /\ updatedDoc = [c \in Calls |-> NoDoc]
    /\ stale = [c \in Calls |-> FALSE]
    /\ caught = [c \in Calls |-> NoError]
    /\ faults = [c \in Calls |-> {}]
    /\ result = [c \in Calls |-> NoResult]
    /\ stored = [c \in Calls |-> NoDoc]

Init ==
    /\ docs \in [Ids -> {NoDoc} \cup {Doc(n, "a", FALSE) : n \in Versions}]
    /\ docs[1].present
    /\ docs0 = docs
    /\ InitUpd
    /\ errLogger = FALSE
    /\ opres = NoOp
    /\ InitExt

Next ==
    \/ \E c \in Calls, id \in Ids, update \in Updates : Invoke(c, id, update)
    \/ \E c \in Calls, ok \in BOOLEAN : StartSession(c, ok)
    \/ \E c \in Calls, ok \in BOOLEAN : ReadDoc(c, ok)
    \/ \E c \in Calls, ok \in BOOLEAN : UpdateDoc(c, ok)
    \/ \E c \in Calls, ok \in BOOLEAN, endOk \in BOOLEAN : Commit(c, ok, endOk)
    \/ \E c \in Calls, ok \in BOOLEAN, endOk \in BOOLEAN : Abort(c, ok, endOk)

Spec == Init /\ [][Next]_vars

----------------------------------------------------------------------------
(* findPaginated: lines 199-243 *)

MaxSkip == 2
MaxLimit == 2
MaxTotal == 5
DefaultLimit == 100

\* options.limit: absent, or a number
NoLimit == [has |-> FALSE, n |-> 0]
Limits == {NoLimit} \cup [has : {TRUE}, n : 0..MaxLimit]

\* Math.floor(skip / currentPageSize) + 1; a division by 0 gives NaN or Infinity
PageNumber(skip, size) ==
    IF size = 0
    THEN [kind |-> IF skip = 0 THEN "NaN" ELSE "Infinity", n |-> 0]
    ELSE [kind |-> "number", n |-> (skip \div size) + 1]

\* PaginatedFilter without the injection: the caller's filter is used as given.
PaginatedFilterAsGiven(f) == f

\* PaginatedFilter with the spread last: a condition of the caller on deleted
\* wins.
PaginatedFilterCallerFirst(f) ==
    IF f.hasDeleted THEN f ELSE [f EXCEPT !.hasDeleted = TRUE, !.deleted = FALSE]

\* entityFilterQuery = { ...entityFilterQuery, deleted: false }   (line 220)
PaginatedFilter(f) == [f EXCEPT !.hasDeleted = TRUE, !.deleted = FALSE]

\* PageResult with the next page also announced when the page ends exactly at
\* the last document.
PageResultInclusive(data, total, skip, currentPageSize) ==
    [data |-> data,
     total |-> total,
     currentPageSize |-> currentPageSize,
     hasNextPage |-> skip + currentPageSize <= total,
     hasPreviousPage |-> skip > 0,
     pageNumber |-> PageNumber(skip, currentPageSize)]

\* The object both paginated reads return     (lines 230-242 and 283-295)
PageResult(data, total, skip, currentPageSize) ==
    [data |-> data,
     total |-> total,
     currentPageSize |-> currentPageSize,
     hasNextPage |-> skip + currentPageSize < total,
     hasPreviousPage |-> skip > 0,
     pageNumber |-> PageNumber(skip, currentPageSize)]

\* const currentPageSize = limit ?? 100        (lines 218 and 271)
CurrentPageSize(limit) == IF limit.has THEN limit.n ELSE DefaultLimit

\* findPaginated(entityFilterQuery, {skip, limit}): out is the store's answer
\* to the page query, cout its answer to the count query. The page query is
\* not inside a try block: its failure leaves as it is.
findPaginated(f, skip, limit, out, cout) ==
    LET currentPageSize == CurrentPageSize(limit)
        q == PaginatedFilter(f)
        data == FindPage(docs, q, skip, currentPageSize)
        total == count(q, cout)
    IN  IF out.how # "ok" THEN Raise(out.error, FALSE)
        ELSE IF total.kind = "thrown" THEN total
        ELSE NormalReturn(PageResult(data, total.value, skip, currentPageSize))

FindPaginated(f, skip, limit, out, cout) ==
    /\ out.how = "ok" \/ cout.how = "ok"
    /\ (out.how = "ok" /\ cout.how = "ok") \/ (f = AnyFilter /\ skip = 0 /\ limit = NoLimit)
    /\ opres' = Called("findPaginated", [filter |-> f, skip |-> skip, limit |-> limit],
                       IF out.how # "ok" THEN out ELSE cout,
                       findPaginated(f, skip, limit, out, cout))
    /\ Effect(Ok, docs)

\* findPaginatedLean(entityFilterQuery, {skip, limit})   (lines 252-296): the
\* caller's filter goes to the page query and to the count as it is.
findPaginatedLean(f, skip, limit, out, cout) ==
    LET currentPageSize == CurrentPageSize(limit)
        data == FindPage(docs, f, skip, currentPageSize)
        total == count(f, cout)
    IN  IF out.how # "ok" THEN Raise(out.error, FALSE)
        ELSE IF total.kind = "thrown" THEN total
        ELSE NormalReturn(PageResult(data, total.value, skip, currentPageSize))

FindPaginatedLean(f, skip, limit, out, cout) ==
    /\ out.how = "ok" \/ cout.how = "ok"
    /\ (out.how = "ok" /\ cout.how = "ok") \/ (f = AnyFilter /\ skip = 0 /\ limit = NoLimit)
    /\ opres' = Called("findPaginatedLean",
                       [filter |-> f, skip |-> skip, limit |-> limit],
                       IF out.how # "ok" THEN out ELSE cout,
                       findPaginatedLean(f, skip, limit, out, cout))
    /\ Effect(Ok, docs)

----------------------------------------------------------------------------
(* The repository used one call at a time *)

Batches == {<<"a">>, <<"a", "b">>}
SearchTexts == {"a", "B"}

InitOps ==
    /\ docs \in [Ids -> {NoDoc} \cup {Doc(0, x, d) : x \in Vals, d \in BOOLEAN}]
    /\ docs0 = [i \in Ids |-> NoDoc]
    /\ InitUpd
    /\ errLogger \in BOOLEAN
    /\ opres = NoOp
    /\ InitExt

NextOps ==
    \/ \E x \in Vals, out \in Outcomes : Create(x, out)
    \/ \E xs \in Batches, out \in Answers : CreateMany(xs, out)
    \/ \E f \in Filters, out \in Answers : UpdateOne(f, "b", out)
    \/ \E f \in Filters, out \in Answers : UpdateMany(f, "b", out)
    \/ \E f \in Filters, new \in BOOLEAN, out \in Answers :
          FindOneAndUpdate(f, "b", new, out)
    \/ \E f \in Filters, out \in Answers : DeleteOne(f, out)
    \/ \E f \in Filters, out \in Answers : DeleteMany(f, out)
    \/ \E f \in Filters, out \in Answers : Aggregate(f, out)
    \/ \E f \in Filters, out \in Answers : Count(f, out)
    \/ \E f \in Filters, out \in Answers : DistinctValues(f, out)
    \/ \E t \in SearchTexts, out \in Answers : FullTextSearch(t, out)

SpecOps == InitOps /\ [][NextOps]_vars

\* Paginated reads and counts of a collection that creations and deletions
\* change between the calls, never during one.
NextPage ==
    \/ \E f \in Filters, skip \in 0..MaxSkip, limit \in Limits,
          out \in Answers, cout \in Answers :
          FindPaginated(f, skip, limit, out, cout)
    \/ \E f \in Filters, out \in Answers : Count(f, out)
    \/ \E x \in Vals, out \in Answers : Create(x, out)
    \/ \E f \in Filters, out \in Answers : DeleteOne(f, out)

SpecPage == InitOps /\ [][NextPage]_vars

\* Paginated reads, of both kinds, of a collection of up to MaxTotal documents
\* of which the first may be soft-deleted.
Shelf(n, k) ==
    [i \in 1..MaxTotal |->
        IF i <= n THEN Doc(0, "a", i <= k) ELSE NoDoc]

DeletedOnly == [AnyFilter EXCEPT !.hasDeleted = TRUE, !.deleted = TRUE]

InitShelf ==
    /\ docs \in {Shelf(n, k) : n \in 0..MaxTotal, k \in 0..1}
    /\ docs0 = [i \in Ids |-> NoDoc]
    /\ InitUpd
    /\ errLogger = FALSE
    /\ opres = NoOp
    /\ InitExt

NextShelf ==
    \/ \E f \in {AnyFilter, DeletedOnly}, skip \in 0..MaxTotal, limit \in Limits,
          out \in Answers, cout \in Answers :
          FindPaginated(f, skip, limit, out, cout)
    \/ \E f \in {AnyFilter, DeletedOnly}, skip \in 0..MaxTotal, limit \in Limits,
          out \in Answers, cout \in Answers :
          FindPaginatedLean(f, skip, limit, out, cout)

SpecShelf == InitShelf /\ [][NextShelf]_vars


----------------------------------------------------------------------------
(* Reads of one document: lines 306-391 *)

Null == "null"

\* OrNotFound without the check of the data: what the store found is returned.
OrNull(data, id) ==
    IF data.present THEN NormalReturn(data) ELSE NormalReturn(Null)

\* if (!data) throw new HttpException(`No data found with ID ${id}`, NOT_FOUND)
\* return data                                  (lines 320-327 and 343-350)
OrNotFound(data, id) ==
    IF data.present THEN NormalReturn(data)
    ELSE Raise(HttpException(NotFoundMessage(id), HttpStatus_NOT_FOUND), FALSE)

\* The first document matching the filter, or null
FirstMatch(coll, f) ==
    IF MatchingIds(coll, f) = {} THEN Null ELSE coll[FirstId(MatchingIds(coll, f))]

\* findById(id): the await is not inside a try block      (lines 306-329)
findById(id, out) ==
    IF out.how # "ok" THEN Raise(out.error, FALSE) ELSE OrNotFound(docs[id], id)

FindById(id, out) ==
    /\ opres' = Called("findById", id, out, findById(id, out))
    /\ Effect(Ok, docs)

\* findByIdLean(id)                                        (lines 331-351)
FindByIdLean(id, out) ==
    /\ opres' = Called("findByIdLean", id, out,
                       IF out.how # "ok" THEN Raise(out.error, FALSE)
                       ELSE OrNotFound(docs[id], id))
    /\ Effect(Ok, docs)

\* findOne(entityFilterQuery)                              (lines 358-371)
FindOne(f, out) ==
    /\ Drawn(f, out)
    /\ opres' = Called("findOne", f, out,
                       IF out.how # "ok" THEN Raise(out.error, FALSE)
                       ELSE NormalReturn(FirstMatch(docs, f)))
    /\ Effect(Ok, docs)

\* findOneLean(entityFilterQuery)                          (lines 379-391)
FindOneLean(f, out) ==
    /\ Drawn(f, out)
    /\ opres' = Called("findOneLean", f, out,
                       IF out.how # "ok" THEN Raise(out.error, FALSE)
                       ELSE NormalReturn(FirstMatch(docs, f)))
    /\ Effect(Ok, docs)

\* Reads of one document from a collection that creations and deletions
\* change between the calls.
NextFind ==
    \/ \E id \in Ids, out \in Answers : FindById(id, out)
    \/ \E id \in Ids, out \in Answers : FindByIdLean(id, out)
    \/ \E f \in Filters, out \in Answers : FindOne(f, out)
    \/ \E f \in Filters, out \in Answers : FindOneLean(f, out)
    \/ \E x \in Vals : Create(x, Ok)
    \/ \E f \in Filters : DeleteOne(f, Ok)

SpecFind == InitOps /\ [][NextFind]_vars

----------------------------------------------------------------------------
(* create on a collection with a unique index on the field: lines 101-107 *)

\* A document of the collection, soft-deleted or not, holds the value.
Holds(coll, x) == \E i \in DOMAIN coll : coll[i].present /\ coll[i].val = x

\* The store's answer to save() under the unique index: a duplicate key error
\* naming the field and the value when a document holds the value, unless the
\* store fails before it gets there.
SaveAnswers(coll, x) ==
    IF Holds(coll, x)
    THEN {[how |-> "rejects", error |-> StoreError(11000, "val", x)]}
         \cup (Answers \ {Ok})
    ELSE Answers

\* create(createEntity) up to the await: new this.options.entityModel(...)
\* and the call of save()
CallCreate(c, x) ==
    /\ creating[c].pc \in {"idle", "done"}
    /\ creating' = [creating EXCEPT ![c] =
          [NoCreate EXCEPT !.pc = "saving", !.entity = x, !.held = Holds(docs, x)]]
    /\ UNCHANGED <<docs, docs0, errLogger, opres, connection, client, paging, req, users>>
    /\ UNCHANGED updVars

\* The store serves the save() of the call, and create returns or throws.
Save(c, out) ==
    /\ creating[c].pc = "saving"
    /\ out \in SaveAnswers(docs, creating[c].entity)
    /\ out.how = "ok" => FreeIds(docs) # {}
    /\ docs' = IF out.how = "ok" THEN Insert(docs, <<creating[c].entity>>) ELSE docs
    /\ creating' = [creating EXCEPT ![c] =
          [@ EXCEPT !.pc = "done", !.raw = out.error,
                    !.ret = TryAwait(out, Doc(0, creating[c].entity, FALSE))]]
    /\ UNCHANGED <<docs0, errLogger, opres, connection, client, paging, req, users>>
    /\ UNCHANGED updVars

UniqueVals(coll) ==
    \A i, j \in DOMAIN coll :
        (coll[i].present /\ coll[j].present /\ coll[i].val = coll[j].val) => i = j

InitUnique ==
    /\ InitOps
    /\ UniqueVals(docs)

NextUnique ==
    \/ \E c \in Calls, x \in Vals : CallCreate(c, x)
    \/ \E c \in Calls, out \in Outcomes : Save(c, out)

SpecUnique == InitUnique /\ [][NextUnique]_vars

----------------------------------------------------------------------------
(* The pagination-parameters parser PaginationQueryParams: src/unnamed/part_004 *)

\* The two constants imported from src/constants/controllers.constant
DEFAULT_PAGE_SIZE == 1
MAX_PAGINATION_SIZE == 2

MaxFields == 3

\* A query parameter is absent (undefined) or a string.
NaN == [nan |-> TRUE, n |-> 0]
Number(n) == [nan |-> FALSE, n |-> n]
Numerals == (0 - 2)..(MAX_PAGINATION_SIZE + 1)

\* parseInt(string): the integer the string is the numeral of, or NaN
ParseInt(str) ==
    IF \E n \in Numerals : ToString(n) = str
    THEN Number(CHOOSE n \in Numerals : ToString(n) = str)
    ELSE NaN

\* OrElse with only NaN replaced, as a ?? b would do for undefined.
OrElseNaNOnly(a, b) == IF a.nan THEN b ELSE a.n

\* a || b on a number: NaN and 0 are falsy
OrElse(a, b) == IF a.nan \/ a.n = 0 THEN b ELSE a.n

\* a || b on an optional string: undefined and '' are falsy
StrOrElse(a, b) == IF a = None \/ a = "" THEN b ELSE a

BadRequestException(message) == HttpException(message, HttpStatus_BAD_REQUEST)

\* The values of sort that match sortPattern, among those requests carry
SortInputs == {None, "name"}
SortMatches(sort) == sort \in {"createdAt:-1", "name:1"}

\* The values of filter that JSON.parse accepts, among those requests carry
FilterInputs == {None, "{"}
JSONParses(filterStr) == filterStr = "{}"

\* A field of select, as the characters that matter to the parser: a leading
\* '-' and the name after it.
Fields ==
    { <<>>, <<"-">>, <<"name">>, <<"-", "name">>, <<"-", "email">>, <<"__proto__">> }
RECURSIVE SeqsUpTo(_, _)
SeqsUpTo(S, n) ==
    IF n = 0 THEN {<<>>}
    ELSE LET shorter == SeqsUpTo(S, n - 1)
         IN  shorter \cup {Append(q, x) : q \in {r \in shorter : Len(r) = n - 1}, x \in S}

StartsWithDash(field) == Len(field) > 0 /\ field[1] = "-"

\* acc[key] = newMode on a plain object: an own property is added at the end
\* or overwritten in place; the key __proto__ is the prototype accessor, which
\* ignores a number and adds no property.
Assign(acc, key, mode) ==
    IF key = <<"__proto__">> THEN acc
    ELSE IF \E k \in 1..Len(acc) : acc[k].key = key
    THEN [k \in 1..Len(acc) |->
            IF acc[k].key = key THEN [key |-> key, mode |-> mode] ELSE acc[k]]
    ELSE Append(acc, [key |-> key, mode |-> mode])

Mixed == [thrown |-> TRUE, acc |-> <<>>]

\* AddField without the check of the mode of the fields already there.
AddFieldUnchecked(st, field) ==
    LET isExclusion == StartsWithDash(field)
        key == IF isExclusion THEN Tail(field) ELSE field
        newMode == IF isExclusion THEN 0 ELSE 1
    IN  IF st.thrown THEN st
        ELSE IF key = <<>> THEN st
        ELSE [thrown |-> FALSE, acc |-> Assign(st.acc, key, newMode)]

\* The callback of select.split(',').reduce          (lines 72-95)
AddField(st, field) ==
    LET isExclusion == StartsWithDash(field)
        key == IF isExclusion THEN Tail(field) ELSE field
        newMode == IF isExclusion THEN 0 ELSE 1
    IN  IF st.thrown THEN st
        ELSE IF key = <<>> THEN st
        ELSE IF Len(st.acc) > 0 /\ st.acc[1].mode # newMode THEN Mixed
        ELSE [thrown |-> FALSE, acc |-> Assign(st.acc, key, newMode)]

RECURSIVE Reduce(_, _)
Reduce(st, fields) ==
    IF fields = <<>> THEN st ELSE Reduce(AddField(st, Head(fields)), Tail(fields))

\* if (Object.values(projection)[0] === 0) projection['_id'] = 0   (lines 101-103)
WithoutId(acc) ==
    IF Len(acc) > 0 /\ acc[1].mode = 0 THEN Assign(acc, <<"_id">>, 0) ELSE acc

\* The decorator's function on the query of a request
PaginationQueryParams(q) ==
    LET page == OrElse(ParseInt(q.page), 1) - 1
        size == OrElse(ParseInt(q.size), DEFAULT_PAGE_SIZE)
        populate == StrOrElse(q.populate, "")
        populateSelect == StrOrElse(q.populateSelect, "")
        sort == StrOrElse(q.sort, "createdAt:-1")
        filterStr == StrOrElse(q.filter, "{}")
        reduced == Reduce([thrown |-> FALSE, acc |-> <<>>], q.select)
        limit == size
    IN  IF ~SortMatches(sort)
        THEN Raise(BadRequestException("Invalid sort parameter"), FALSE)
        ELSE IF populateSelect # "" /\ populate = ""
        THEN Raise(BadRequestException("populateSelect is defined but populate is not"),
                   FALSE)
        ELSE IF page < 0 \/ size < 0
        THEN Raise(BadRequestException("Invalid pagination params"), FALSE)
        ELSE IF size > MAX_PAGINATION_SIZE
        THEN Raise(BadRequestException("Invalid pagination params: Max size is "
                                        \o ToString(MAX_PAGINATION_SIZE)), FALSE)
        ELSE IF ~JSONParses(filterStr) \/ reduced.thrown
        THEN Raise(BadRequestException("filter " \o q.filter
                                        \o " is not correctly formatted"), FALSE)
        ELSE NormalReturn(
               [page |-> page, limit |-> limit, size |-> size,
                offset |-> page * limit, sort |-> sort, filter |-> filterStr,
                search |-> "", populate |-> populate,
                populateSelect |-> populateSelect,
                projection |-> WithoutId(reduced.acc)])

\* A request reaches a handler whose parameter carries the decorator.
Parse ==
    /\ opres.op = "none"
    /\ opres' = Called("PaginationQueryParams", req, Ok, PaginationQueryParams(req))
    /\ UNCHANGED <<docs, docs0, errLogger, extVars>>
    /\ UNCHANGED updVars

Requests ==
    [page : {None} \cup {ToString(n) : n \in (0 - 1)..2},
     size : {None} \cup {ToString(n) : n \in (0 - 1)..(MAX_PAGINATION_SIZE + 1)},
     sort : SortInputs,
     populate : {None},
     populateSelect : {None, "name"},
     filter : FilterInputs,
     select : SeqsUpTo(Fields, MaxFields)]

InitParse ==
    /\ docs = [i \in Ids |-> NoDoc]
    /\ docs0 = docs
    /\ InitUpd
    /\ errLogger = FALSE
    /\ opres = NoOp
    /\ connection = TRUE
    /\ client = [c \in Calls |-> NoClientSession]
    /\ paging = NoPaging
    /\ creating = [c \in Calls |-> NoCreate]
    /\ req \in Requests
    /\ users = InitialUsers

NextParse == Parse

SpecParse == InitParse /\ [][NextParse]_vars

----------------------------------------------------------------------------
(* Transactions handed to the caller: lines 629-677 *)

\* new Error('Databse connection option not defined'): an error without a code
NoConnectionError == StoreError(0, "", "")

\* The session after startSession() and session.startTransaction()
Started == [open |-> TRUE, txn |-> "active", ended |-> FALSE]

\* startTransaction without the check of options.connection.
startTransactionUnchecked(c, out) ==
    IF out.how # "ok"
    THEN [ret |-> Raise(out.error, FALSE), session |-> client[c]]
    ELSE [ret |-> NormalReturn(Started), session |-> Started]

\* startTransaction(): what it hands back and the session of the caller
\* after it; startSession() is not inside a try block.     (lines 629-637)
startTransaction(c, out) ==
    IF ~connection
    THEN [ret |-> HandleDatabaseError(NoConnectionError), session |-> client[c]]
    ELSE IF out.how # "ok"
    THEN [ret |-> Raise(out.error, FALSE), session |-> client[c]]
    ELSE [ret |-> NormalReturn(Started), session |-> Started]

\* startClientTransaction()                                 (lines 655-663)
startClientTransaction(c, out) ==
    IF ~connection
    THEN [ret |-> HandleDatabaseError(NoConnectionError), session |-> client[c]]
    ELSE IF out.how # "ok"
    THEN [ret |-> Raise(out.error, FALSE), session |-> client[c]]
    ELSE [ret |-> NormalReturn(Started), session |-> Started]

\* What a call on the sessions leaves unchanged
TxnFrame ==
    /\ UNCHANGED <<docs, docs0, errLogger, connection, paging, creating, req, users>>
    /\ UNCHANGED updVars

StartTransaction(c, out) ==
    /\ ~client[c].open
    /\ ~connection => out = Ok
    /\ opres' = Called("startTransaction", c, out, startTransaction(c, out).ret)
    /\ client' = [client EXCEPT ![c] = startTransaction(c, out).session]
    /\ TxnFrame

StartClientTransaction(c, out) ==
    /\ ~client[c].open
    /\ ~connection => out = Ok
    /\ opres' = Called("startClientTransaction", c, out,
                       startClientTransaction(c, out).ret)
    /\ client' = [client EXCEPT ![c] = startClientTransaction(c, out).session]
    /\ TxnFrame

\* commitClientTransaction(session): await session.commitTransaction();
\* session.endSession()                                     (lines 665-668)
CommitClientTransaction(c, out) ==
    /\ client[c].open /\ ~client[c].ended /\ client[c].txn = "active"
    /\ opres' = Called("commitClientTransaction", c, out,
                       IF out.how = "ok" THEN NormalReturn(None)
                       ELSE Raise(out.error, FALSE))
    /\ client' = [client EXCEPT ![c] =
          IF out.how = "ok" THEN [@ EXCEPT !.txn = "committed", !.ended = TRUE]
          ELSE @]
    /\ TxnFrame

\* abortClientTransaction(session): await session.abortTransaction();
\* session.endSession()                                     (lines 670-673)
AbortClientTransaction(c, out) ==
    /\ client[c].open /\ ~client[c].ended /\ client[c].txn = "active"
    /\ opres' = Called("abortClientTransaction", c, out,
                       IF out.how = "ok" THEN NormalReturn(None)
                       ELSE Raise(out.error, FALSE))
    /\ client' = [client EXCEPT ![c] =
          IF out.how = "ok" THEN [@ EXCEPT !.txn = "aborted", !.ended = TRUE]
          ELSE @]
    /\ TxnFrame

\* endClientTransaction(session): session.endSession(), which aborts a
\* transaction still in progress                            (lines 675-677)
EndClientTransaction(c) ==
    /\ client[c].open /\ ~client[c].ended
    /\ opres' = Called("endClientTransaction", c, Ok, NormalReturn(None))
    /\ client' = [client EXCEPT ![c] =
          [@ EXCEPT !.ended = TRUE,
                    !.txn = IF @ = "active" THEN "aborted" ELSE @]]
    /\ TxnFrame

InitTxn ==
    /\ docs = [i \in Ids |-> NoDoc]
    /\ docs0 = docs
    /\ InitUpd
    /\ errLogger \in BOOLEAN
    /\ opres = NoOp
    /\ connection \in BOOLEAN
    /\ client = [c \in Calls |-> NoClientSession]
    /\ paging = NoPaging
    /\ creating = [c \in Calls |-> NoCreate]
    /\ req = NoRequest
    /\ users = InitialUsers

NextTxn ==
    \/ \E c \in Calls, out \in Answers : StartTransaction(c, out)
    \/ \E c \in Calls, out \in Answers : StartClientTransaction(c, out)
    \/ \E c \in Calls, out \in Answers : CommitClientTransaction(c, out)
    \/ \E c \in Calls, out \in Answers : AbortClientTransaction(c, out)
    \/ \E c \in Calls : EndClientTransaction(c)

SpecTxn == InitTxn /\ [][NextTxn]_vars

----------------------------------------------------------------------------
(* The paginated reads as the two store queries they are, with the writes of
   other callers between them: lines 221-228 and 273-281 *)

\* The filter both queries of the read are given
QueryFilter(lean, f) == IF lean THEN f ELSE PaginatedFilter(f)

\* What a step of the paginated read, or a write in between, leaves unchanged
PagingFrame ==
    /\ UNCHANGED <<docs0, errLogger, connection, client, creating, req, users>>
    /\ UNCHANGED updVars

\* The call up to the end of its first await: the page is read.
PageQuery(lean, f, skip, limit) ==
    /\ paging.pc \in {"idle", "done"}
    /\ paging' =
         [NoPaging EXCEPT
            !.pc = "counting", !.lean = lean, !.filter = f, !.skip = skip,
            !.size = CurrentPageSize(limit),
            !.data = FindPage(docs, QueryFilter(lean, f), skip, CurrentPageSize(limit))]
    /\ UNCHANGED <<docs, opres>>
    /\ PagingFrame

\* The rest of the call: await this.count(entityFilterQuery), and the result.
CountQuery(cout) ==
    /\ paging.pc = "counting"
    /\ LET total == count(QueryFilter(paging.lean, paging.filter), cout)
           ret == IF total.kind = "thrown" THEN total
                  ELSE NormalReturn(PageResult(paging.data, total.value,
                                               paging.skip, paging.size))
       IN  paging' = [paging EXCEPT !.pc = "done", !.ret = ret]
    /\ UNCHANGED <<docs, opres>>
    /\ PagingFrame

\* A write reached the store while the read was between its two queries.
Disturbed == [paging EXCEPT !.disturbed = @ \/ paging.pc = "counting"]

\* create(createEntity) by another caller
CreateMeanwhile(x) ==
    /\ FreeIds(docs) # {}
    /\ docs' = Insert(docs, <<x>>)
    /\ opres' = Called("create", x, Ok, TryAwait(Ok, Doc(0, x, FALSE)))
    /\ paging' = Disturbed
    /\ PagingFrame

\* deleteOne(entityFilterQuery) by another caller
DeleteOneMeanwhile(f) ==
    LET ids == MatchingIds(docs, f) IN
    /\ ids # {}
    /\ docs' = Remove(docs, {FirstId(ids)})
    /\ opres' = Called("deleteOne", f, Ok, TryAwait(Ok, TRUE))
    /\ paging' = Disturbed
    /\ PagingFrame

InitRace ==
    /\ docs \in [Ids -> {NoDoc} \cup {Doc(0, "a", d) : d \in BOOLEAN}]
    /\ docs0 = [i \in Ids |-> NoDoc]
    /\ InitUpd
    /\ errLogger = FALSE
    /\ opres = NoOp
    /\ InitExt

NextRace ==
    \/ \E lean \in BOOLEAN, f \in {AnyFilter, DeletedOnly}, skip \in 0..MaxSkip,
          limit \in Limits : PageQuery(lean, f, skip, limit)
    \/ \E cout \in Answers : CountQuery(cout)
    \/ CreateMeanwhile("a")
    \/ DeleteOneMeanwhile(AnyFilter)

SpecRace == InitRace /\ [][NextRace]_vars

----------------------------------------------------------------------------
(* The in-memory UsersService: src/src/users/users.service.ts *)

MaxUsers == 4

\* role.toUpperCase(), on the roles requests carry ("ADMIN", "intern")
ToUpperCase(role) == IF role = "intern" THEN "INTERN" ELSE role

\* The ids requests ask for: those the list can hold, and one more
UserIds == 1..(MaxUsers + 1)

\* An update payload (Partial<{name, role}>): its absent fields are undefined.
UserUpdates == {[name |-> "Renamed", role |-> None], [name |-> None, role |-> "intern"]}

\* this.users.findIndex((user) => user.id === id): the first position with
\* the id, 0 for no position
FindIndex(list, id) ==
    IF \E k \in 1..Len(list) : list[k].id = id
    THEN CHOOSE k \in 1..Len(list) :
            /\ list[k].id = id
            /\ \A j \in 1..(k - 1) : list[j].id # id
    ELSE 0

\* this.users.splice(userIndex, 1)
Splice(list, k) == [j \in 1..(Len(list) - 1) |-> IF j < k THEN list[j] ELSE list[j + 1]]

\* What a call of the service leaves unchanged
UsersFrame ==
    /\ UNCHANGED <<docs, docs0, errLogger, connection, client, paging, creating, req>>
    /\ UNCHANGED updVars

\* findAll(role?)                                           (lines 37-43)
UsersFindAll(role) ==
    /\ opres' = Called("findAll", role, Ok,
                       NormalReturn(IF role = None THEN users
                                    ELSE SelectSeq(users,
                                           LAMBDA u : u.role = ToUpperCase(role))))
    /\ UNCHANGED users
    /\ UsersFrame

\* findAllInterns()                                         (lines 46-48)
UsersFindAllInterns ==
    /\ opres' = Called("findAllInterns", None, Ok,
                       NormalReturn(SelectSeq(users, LAMBDA u : u.role = "INTERN")))
    /\ UNCHANGED users
    /\ UsersFrame

\* findOne(id)                                              (lines 51-53)
UsersFindOne(id) ==
    /\ opres' = Called("findOne", id, Ok,
                       NormalReturn(IF FindIndex(users, id) = 0 THEN Null
                                    ELSE users[FindIndex(users, id)]))
    /\ UNCHANGED users
    /\ UsersFrame

\* id: this.users.length + 1                                (line 63)
NewId(list) == Len(list) + 1

\* create(user)                                             (lines 56-69)
UsersCreate(name, role) ==
    /\ Len(users) < MaxUsers
    /\ LET newUser == User(NewId(users), name, ToUpperCase(role)) IN
       /\ users' = Append(users, newUser)
       /\ opres' = Called("createUser", [name |-> name, role |-> role], Ok,
                          NormalReturn(newUser))
    /\ UsersFrame

\* updateUser(id, updatedUser)                              (lines 72-95)
UsersUpdateUser(id, updatedUser) ==
    /\ LET userIndex == FindIndex(users, id) IN
       IF userIndex = 0
       THEN /\ opres' = Called("updateUser", [id |-> id, update |-> updatedUser], Ok,
                               NormalReturn(Null))
            /\ UNCHANGED users
       ELSE LET old == users[userIndex]
                updatedUserData ==
                    User(old.id,
                         IF updatedUser.name = None THEN old.name ELSE updatedUser.name,
                         IF updatedUser.role = None THEN old.role
                         ELSE ToUpperCase(updatedUser.role))
            IN  /\ users' = [users EXCEPT ![userIndex] = updatedUserData]
                /\ opres' = Called("updateUser", [id |-> id, update |-> updatedUser],
                                   Ok, NormalReturn(updatedUserData))
    /\ UsersFrame

\* deleteUser(id)                                           (lines 97-104)
UsersDeleteUser(id) ==
    /\ LET userIndex == FindIndex(users, id) IN
       IF userIndex = 0
       THEN /\ opres' = Called("deleteUser", id, Ok, NormalReturn(Null))
            /\ UNCHANGED users
       ELSE /\ users' = Splice(users, userIndex)
            /\ opres' = Called("deleteUser", id, Ok,
                               NormalReturn(Splice(users, userIndex)))
    /\ UsersFrame

InitUsers ==
    /\ docs = [i \in Ids |-> NoDoc]
    /\ docs0 = docs
    /\ InitUpd
    /\ errLogger = FALSE
    /\ opres = NoOp
    /\ InitExt

NextUsers ==
    \/ \E role \in {None, "ADMIN"} : UsersFindAll(role)
    \/ UsersFindAllInterns
    \/ \E id \in UserIds : UsersFindOne(id)
    \/ UsersCreate("New User", "intern")
    \/ \E id \in UserIds, updatedUser \in UserUpdates : UsersUpdateUser(id, updatedUser)
    \/ \E id \in UserIds : UsersDeleteUser(id)

SpecUsers == InitUsers /\ [][NextUsers]_vars

----------------------------------------------------------------------------
(* Claims about updateById, checked under Spec *)

Done(c) == pc[c] = "done"
Other(c) == CHOOSE o \in Calls : o # c
Succeeded(c) == result[c].kind = "returned" /\ result[c].doc.present
ThrewHttp(c, status, message) ==
    /\ result[c].kind = "thrown"
    /\ result[c].exc.kind = "HttpException"
    /\ result[c].exc.status = status
    /\ result[c].exc.response = message

\* C1 (as claimed): two finished updateById calls on the same existing
\* document, both carrying in update.__v the version stored before the run and
\* neither hit by a store failure: exactly one returned the updated document,
\* the other threw 409, and the stored version is the pre-run version plus 1.
C1_ExactlyOneSucceeds ==
    \A c \in Calls :
        LET o == Other(c)
            id == arg[c].id
        IN  ( /\ Done(c) /\ Done(o)
              /\ arg[o].id = id
              /\ docs0[id].present
              /\ arg[c].update.hasV /\ arg[o].update.hasV
              /\ arg[c].update.v = docs0[id].v
              /\ arg[o].update.v = docs0[id].v
              /\ faults[c] = {} /\ faults[o] = {} )
            => /\ Succeeded(c) \/ Succeeded(o)
               /\ Succeeded(c) => ThrewHttp(o, 409, "Concurrency conflict")
               /\ docs[id].v = docs0[id].v + 1

\* C2 (as claimed): a finished call that read an existing document whose
\* stored version differs from the version carried by the update (0 included),
\* with no store failure, threw 409 'Concurrency conflict', aborted its
\* transaction and wrote nothing.
C2_MismatchIsConflict ==
    \A c \in Calls :
        ( /\ Done(c)
          /\ faults[c] = {}
          /\ existingDoc[c].present
          /\ arg[c].update.hasV
          /\ arg[c].update.v # existingDoc[c].v )
        => /\ ThrewHttp(c, 409, "Concurrency conflict")
           /\ session[c].txn = "aborted"
           /\ updatedDoc[c] = NoDoc

\* C3: a finished call on an id that holds no document never committed and
\* left the id without a document; when the store served its read and its
\* abort, it threw 404 'No data found with ID <id>' after aborting.
C3_MissingIsNotFound ==
    \A c \in Calls :
        (Done(c) /\ session[c].started /\ ~docs0[arg[c].id].present)
        => /\ session[c].txn # "committed"
           /\ stored[c] = NoDoc
           /\ ~docs[arg[c].id].present
           /\ (faults[c] \cap {"read", "abort"} = {})
                => /\ ThrewHttp(c, 404, "No data found with ID " \o ToString(arg[c].id))
                   /\ session[c].txn = "aborted"

C3_Witness ==
    \E c \in Calls :
        /\ Done(c) /\ ~docs0[arg[c].id].present /\ faults[c] = {}
        /\ result[c].kind = "thrown"
        /\ arg[c].id = 2

\* C4: a call that returned a document committed its transaction, the
\* collection's document right after the commit has the version the call read
\* plus exactly 1 and the update's value, and it is the document returned.
C4_SuccessIncrementsByOne ==
    \A c \in Calls :
        (Done(c) /\ Succeeded(c))
        => /\ session[c].txn = "committed"
           /\ existingDoc[c].present
           /\ stored[c].v = existingDoc[c].v + 1
           /\ stored[c].val = arg[c].update.val
           /\ result[c].doc = stored[c]

C4_Witness ==
    \E c \in Calls :
        /\ Done(c) /\ Succeeded(c) /\ Done(Other(c)) /\ Succeeded(Other(c))
        /\ arg[c].id = arg[Other(c)].id
        /\ stored[c].v = 2

\* C5 (as claimed): a finished call that started a session has ended it; when
\* its transaction failed the transaction is aborted; and a failure of
\* abortTransaction reaches the caller.
C5_AlwaysAbortedAndEnded ==
    \A c \in Calls :
        (Done(c) /\ session[c].started)
        => /\ session[c].ended
           /\ (caught[c] # NoError => session[c].txn = "aborted")
           /\ ("abort" \in faults[c] => result[c] = Thrown(StoreFailure))

\* C6 (as claimed): a finished call whose transaction failed (its catch block
\* ran) threw a normalized error; it did not return.
C6_FailureIsRaised ==
    \A c \in Calls :
        (Done(c) /\ caught[c] # NoError)
        => /\ result[c].kind = "thrown"
           /\ result[c].exc.kind = "HttpException"

----------------------------------------------------------------------------
(* Claims about the single-call operations, checked under SpecOps *)

WrappedOps ==
    {"create", "createMany", "updateOne", "updateMany", "findOneAndUpdate",
     "deleteOne", "deleteMany", "aggregate", "count", "distinctValues"}

Normalized(r) ==
    /\ r.kind = "thrown"
    /\ r.exc.kind = "HttpException"
    /\ r.exc.status \in {400, 500}

\* C7: when the store fails one of create, createMany, updateOne, updateMany,
\* findOneAndUpdate, deleteOne, deleteMany, aggregate, count, distinctValues
\* (by throwing or by rejecting), the call throws the normalized error, never
\* the raw store error, and never returns.
C7_StoreFailureIsNormalized ==
    (opres.op \in WrappedOps /\ opres.how # "ok")
    => /\ Normalized(opres)
       /\ opres.exc # opres.raw

C7_Witness ==
    /\ opres.op = "deleteMany"
    /\ opres.how = "rejects"
    /\ opres.kind = "thrown"

\* C8 (as claimed): when the query of fullTextSearch rejects, the call throws
\* the normalized error, not the raw store error.
C8_SearchFailureIsNormalized ==
    (opres.op = "fullTextSearch" /\ opres.how = "rejects")
    => /\ Normalized(opres)
       /\ opres.exc # opres.raw

\* C9: whenever handleDatabaseError receives a store error it throws, and the
\* exception carries the status and the message of the error's code: 11000,
\* 11001, 12000, 12010, 12102, 12134 give 400 with their messages, any other
\* or no code gives 500 'Database operation failed'; with or without logging.
C9_ErrorTable ==
    (opres.how # "ok" /\ (opres.op \in WrappedOps \/ opres.how = "throws"))
    => LET code == opres.raw.code
           status == opres.exc.status
           message == opres.exc.response
       IN  /\ opres.kind = "thrown"
           /\ opres.exc.kind = "HttpException"
           /\ opres.logged = errLogger
           /\ code = 11000 =>
                /\ status = 400
                /\ opres.raw.value = "a" => message = "{\"val\":\"a\"} already exists"
                /\ opres.raw.value = "b" => message = "{\"val\":\"b\"} already exists"
           /\ code = 11001 => status = 400 /\ message = "Duplicate key error"
           /\ code = 12000 => status = 400 /\ message = "Invalid index specification"
           /\ code = 12010 =>
                status = 400 /\ message = "Cannot build index on a non-existing field"
           /\ code = 12102 => status = 400 /\ message = "Index key too long"
           /\ code = 12134 => status = 400 /\ message = "Index not found"
           /\ code \notin {11000, 11001, 12000, 12010, 12102, 12134} =>
                status = 500 /\ message = "Database operation failed"

C9_Witness ==
    /\ opres.op = "create"
    /\ opres.raw.code = 11001
    /\ opres.kind = "thrown"
    /\ errLogger /\ opres.logged

----------------------------------------------------------------------------
(* Claims about findPaginated and count, checked under SpecPage *)

\* C10 (as claimed): the total of a page equals count of the caller's filter.
C10_TotalEqualsCount ==
    (opres.op = "findPaginated" /\ opres.kind = "returned")
    => opres.value.total = count(opres.in.filter, Ok).value

\* C10 (amended): the total of a page equals count of the caller's filter
\* extended by deleted: false, the number of documents the rest of the filter
\* matches that are not soft-deleted, whatever skip and limit are; it equals
\* count of the caller's filter when the filter does not ask for deleted
\* documents and the rest of it matches no soft-deleted document.
C10_TotalEqualsCountOfNotDeleted ==
    (opres.op = "findPaginated" /\ opres.kind = "returned")
    => LET f == opres.in.filter
           rest == {i \in Ids : docs[i].present /\ (f.hasVal => docs[i].val = f.val)}
           kept == {i \in rest : ~docs[i].deleted}
       IN  /\ opres.value.total = Cardinality(kept)
           /\ opres.value.total =
                count([f EXCEPT !.hasDeleted = TRUE, !.deleted = FALSE], Ok).value
           /\ ((f.hasDeleted => ~f.deleted) /\ kept = rest)
                => opres.value.total = count(f, Ok).value

C10_Witness ==
    /\ opres.op = "findPaginated"
    /\ opres.kind = "returned"
    /\ opres.in.skip = 1
    /\ opres.in.limit = [has |-> TRUE, n |-> 1]
    /\ opres.value.total = 1
    /\ count(opres.in.filter, Ok).value = 2

\* C19: a call whose update carries no version is never stopped by the
\* version check and never throws 409, whatever version it read; what it
\* writes has the version it read plus 1, and so has the stored document
\* when it returns one.
C19_NoVersionNoCheck ==
    \A c \in Calls :
        ~arg[c].update.hasV
        => /\ caught[c] # HttpException("CONFLICT", HttpStatus_CONFLICT)
           /\ ~(result[c].kind = "thrown" /\ result[c].exc.status = 409)
           /\ (existingDoc[c].present /\ pc[c] = "abort")
                => caught[c].kind # "HttpException"
           /\ updatedDoc[c].present => updatedDoc[c].v = existingDoc[c].v + 1
           /\ (Done(c) /\ Succeeded(c)) => stored[c].v = existingDoc[c].v + 1

C19_Witness ==
    \E c \in Calls :
        LET o == Other(c) IN
        /\ ~arg[c].update.hasV /\ ~arg[o].update.hasV
        /\ arg[c].id = arg[o].id
        /\ existingDoc[c].present /\ existingDoc[o] = existingDoc[c]
        /\ existingDoc[c].v = 1
        /\ Done(c) /\ Succeeded(c) /\ stored[c].v = 2
        /\ pc[o] = "update"

----------------------------------------------------------------------------
(* Claims about the page result, checked under SpecShelf *)

PagedOps == {"findPaginated", "findPaginatedLean"}

\* The documents a paginated read of the collection is about: for
\* findPaginatedLean those matching the caller's filter, for findPaginated
\* those matching its conditions on other fields that are not soft-deleted.
PagedIds(r) ==
    {i \in DOMAIN docs :
        IF r.op = "findPaginated"
        THEN /\ Matches(docs[i], [r.in.filter EXCEPT !.hasDeleted = FALSE])
             /\ ~docs[i].deleted
        ELSE Matches(docs[i], r.in.filter)}

\* C11: for skip >= 0, limit >= 1 and total the number of documents the read
\* is about, the page result of findPaginated and of findPaginatedLean has
\* currentPageSize = limit, hasNextPage = (skip + limit < total),
\* hasPreviousPage = (skip > 0) and pageNumber = floor(skip / limit) + 1;
\* skip 2, limit 2, total 5 gives 2 documents, a next page, a previous page
\* and page number 2; skip 4, limit 2, total 5 gives no next page.
C11_PageFormulas ==
    (opres.op \in PagedOps /\ opres.kind = "returned"
        /\ opres.in.limit.has /\ opres.in.limit.n >= 1)
    => LET skip == opres.in.skip
           limit == opres.in.limit.n
           total == Cardinality(PagedIds(opres))
           r == opres.value
       IN  /\ r.total = total
           /\ r.currentPageSize = limit
           /\ r.hasNextPage = (skip + limit < total)
           /\ r.hasPreviousPage = (skip > 0)
           /\ r.pageNumber.kind = "number"
           /\ (r.pageNumber.n - 1) * limit <= skip
           /\ skip < r.pageNumber.n * limit
           /\ (skip = 2 /\ limit = 2 /\ total = 5)
                => /\ Len(r.data) = 2
                   /\ r.hasNextPage /\ r.hasPreviousPage
                   /\ r.pageNumber.n = 2
           /\ (skip = 4 /\ limit = 2 /\ total = 5) => ~r.hasNextPage

C11_Witness ==
    /\ opres.op = "findPaginated"
    /\ opres.kind = "returned"
    /\ opres.in.skip = 2
    /\ opres.in.limit = [has |-> TRUE, n |-> 2]
    /\ opres.value.total = 5
    /\ Len(opres.value.data) = 2
    /\ opres.value.hasNextPage

\* C18: findPaginated reads and counts with deleted: false whatever the
\* caller's filter says about deleted: no soft-deleted document is in data or
\* counted in total; findPaginatedLean reads and counts with the caller's
\* filter as given.
C18_DeletedFalseOnlyInFindPaginated ==
    /\ (opres.op = "findPaginated" /\ opres.kind = "returned")
       => /\ \A k \in 1..Len(opres.value.data) : ~opres.value.data[k].deleted
          /\ opres.value.total =
               Cardinality({i \in DOMAIN docs :
                   /\ docs[i].present /\ ~docs[i].deleted
                   /\ opres.in.filter.hasVal => docs[i].val = opres.in.filter.val})
          /\ (opres.in.skip = 0 /\ ~opres.in.limit.has)
             => Len(opres.value.data) = opres.value.total
    /\ (opres.op = "findPaginatedLean" /\ opres.kind = "returned")
       => /\ \A k \in 1..Len(opres.value.data) :
                Matches(opres.value.data[k], opres.in.filter)
          /\ opres.value.total =
               Cardinality({i \in DOMAIN docs : Matches(docs[i], opres.in.filter)})
          /\ (opres.in.skip = 0 /\ ~opres.in.limit.has)
             => Len(opres.value.data) = opres.value.total

C18_Witness ==
    /\ opres.op = "findPaginated"
    /\ opres.kind = "returned"
    /\ opres.in.filter = DeletedOnly
    /\ \E i \in DOMAIN docs : docs[i].present /\ docs[i].deleted
    /\ opres.value.total = 2
    /\ Len(opres.value.data) = 2

LeanReturnsSoftDeleted ==
    /\ opres.op = "findPaginatedLean"
    /\ opres.kind = "returned"
    /\ opres.value.total = 3
    /\ Len(opres.value.data) >= 1
    /\ opres.value.data[1].deleted

\* C21 (as claimed): in every page result of findPaginated and of
\* findPaginatedLean, currentPageSize is the number of documents in data, and
\* pageNumber is an integer >= 1, for every skip >= 0 and limit >= 0.
C21_PageSizeIsDataLength ==
    (opres.op \in PagedOps /\ opres.kind = "returned")
    => /\ opres.value.currentPageSize = Len(opres.value.data)
       /\ opres.value.pageNumber.kind = "number"
       /\ opres.value.pageNumber.n >= 1

----------------------------------------------------------------------------
(* Claims about the paginated reads among other callers, checked under SpecRace *)

Max(a, b) == IF a > b THEN a ELSE b

\* What C20 says of a page result
WithinTotal(r, skip) ==
    /\ Len(r.data) <= r.total
    /\ Len(r.data) <= Max(0, r.total - skip)
    /\ r.data = <<>> => ~r.hasNextPage

\* C20 (as claimed): every page result has at most total documents in data, at
\* most max(0, total - skip), and no next page when data is empty, also when
\* other callers insert or delete between the page query and the count.
C20_DataWithinTotal ==
    (paging.pc = "done" /\ paging.ret.kind = "returned")
    => WithinTotal(paging.ret.value, paging.skip)

\* C20 (amended): the same for the reads during which no write of another
\* caller reached the store between the page query and the count.
C20_DataWithinTotalWhenUndisturbed ==
    (paging.pc = "done" /\ paging.ret.kind = "returned" /\ ~paging.disturbed)
    => WithinTotal(paging.ret.value, paging.skip)

C20_Witness ==
    /\ paging.pc = "done"
    /\ paging.ret.kind = "returned"
    /\ ~paging.disturbed
    /\ paging.skip = 1
    /\ Len(paging.ret.value.data) = 1
    /\ paging.ret.value.total = 2
    /\ opres.op = "create"

----------------------------------------------------------------------------
(* Claims about the reads of one document, checked under SpecFind *)

\* C12: findById and findByIdLean on an identifier without a document throw
\* 404 'No data found with ID <id>'; findOne and findOneLean on a filter
\* matching no document return null and raise nothing.
C12_MissingIdThrowsMissingMatchIsNull ==
    /\ (opres.op \in {"findById", "findByIdLean"} /\ opres.how = "ok"
            /\ ~docs[opres.in].present)
       => /\ opres.kind = "thrown"
          /\ opres.exc.kind = "HttpException"
          /\ opres.exc.status = 404
          /\ opres.in = 1 => opres.exc.response = "No data found with ID 1"
          /\ opres.in = 2 => opres.exc.response = "No data found with ID 2"
          /\ opres.in = 3 => opres.exc.response = "No data found with ID 3"
    /\ (opres.op \in {"findOne", "findOneLean"} /\ opres.how = "ok"
            /\ \A i \in Ids : ~Matches(docs[i], opres.in))
       => /\ opres.kind = "returned"
          /\ opres.value = Null

C12_Witness ==
    /\ opres.op = "findByIdLean"
    /\ opres.in = 2
    /\ docs[1].present /\ ~docs[2].present
    /\ opres.kind = "thrown"
    /\ opres.exc.status = 404

----------------------------------------------------------------------------
(* Claims about create under a unique index, checked under SpecUnique *)

DuplicateMessage(x) == "{\"val\":\"" \o x \o "\"} already exists"

\* C13: a create whose save finds a document already holding the value of the
\* unique field inserts nothing and fails; when the store reports the
\* duplicate key the failure is a 400 whose message holds the field and the
\* value. This is so whether the value was held when create was called or
\* was inserted by another create in between.
C13_DuplicateIsRejected ==
    [][\A c \in Calls :
        (creating[c].pc = "saving" /\ creating'[c].pc = "done"
            /\ Holds(docs, creating[c].entity))
        => /\ docs' = docs
           /\ creating'[c].ret.kind = "thrown"
           /\ creating'[c].raw.code = 11000
              => /\ creating'[c].ret.exc.kind = "HttpException"
                 /\ creating'[c].ret.exc.status = 400
                 /\ creating'[c].ret.exc.response
                      = DuplicateMessage(creating[c].entity)]_vars

C13_Witness ==
    /\ creating["A"].pc = "done" /\ creating["B"].pc = "done"
    /\ creating["A"].entity = "b" /\ creating["B"].entity = "b"
    /\ ~creating["A"].held /\ ~creating["B"].held
    /\ creating["A"].ret.kind = "returned"
    /\ creating["B"].ret.kind = "thrown"
    /\ creating["B"].ret.exc.status = 400
    /\ creating["B"].ret.exc.response = "{\"val\":\"b\"} already exists"
    /\ Cardinality({i \in Ids : docs[i].present /\ docs[i].val = "b"}) = 1

----------------------------------------------------------------------------
(* Claims about the transactions handed to the caller, checked under SpecTxn *)

\* C15 (as claimed): after commitClientTransaction or abortClientTransaction,
\* however the call left, the session handed to it is ended; when the call
\* returned, the transaction was committed, or aborted, before that.
C15_SessionEndedOnEveryExit ==
    opres.op \in {"commitClientTransaction", "abortClientTransaction"}
    => /\ client[opres.in].ended
       /\ (opres.kind = "returned" /\ opres.op = "commitClientTransaction")
            => client[opres.in].txn = "committed"
       /\ (opres.kind = "returned" /\ opres.op = "abortClientTransaction")
            => client[opres.in].txn = "aborted"

\* C16: without options.connection, startTransaction and
\* startClientTransaction throw and the caller gets no session and no
\* transaction; with it, and the store answering, they return a session with
\* a transaction started.
C16_NoConnectionNoSession ==
    opres.op \in {"startTransaction", "startClientTransaction"}
    => /\ ~connection
          => /\ opres.kind = "thrown"
             /\ opres.exc.kind = "HttpException"
             /\ opres.exc.status = 500
             /\ opres.exc.response = "Database operation failed"
             /\ \A c \in Calls : ~client[c].open /\ client[c].txn = "none"
       /\ (connection /\ opres.how = "ok")
          => /\ opres.kind = "returned"
             /\ opres.value = client[opres.in]
             /\ client[opres.in].open
             /\ client[opres.in].txn = "active"
             /\ ~client[opres.in].ended

C16_Witness ==
    /\ opres.op = "startClientTransaction"
    /\ ~connection
    /\ opres.kind = "thrown"
    /\ opres.exc.status = 500
    /\ client = [c \in Calls |-> NoClientSession]

----------------------------------------------------------------------------
(* Claims about the pagination-parameters parser, checked under SpecParse *)

Parsed == opres.op = "PaginationQueryParams"
Rejected ==
    /\ opres.kind = "thrown"
    /\ opres.exc.kind = "HttpException"
    /\ opres.exc.status = 400

InclusionField(field) == field # <<>> /\ field[1] # "-"
ExclusionField(field) == Len(field) >= 2 /\ field[1] = "-"
NameOf(field) == IF ExclusionField(field) THEN Tail(field) ELSE field
AllEqual(projection) ==
    \A j, k \in 1..Len(projection) : projection[j].mode = projection[k].mode

\* C14 (as claimed): every select list with at least one inclusion field and
\* at least one exclusion field is rejected with a bad request error, and
\* every projection returned has all its values equal.
C14_MixIsRejected ==
    Parsed =>
        /\ (\E j, k \in 1..Len(req.select) :
               InclusionField(req.select[j]) /\ ExclusionField(req.select[k]))
           => Rejected
        /\ opres.kind = "returned" => AllEqual(opres.value.projection)

\* C14 (amended): the same for the fields the projection object stores, which
\* are those not named __proto__.
C14_StoredMixIsRejected ==
    Parsed =>
        /\ (\E j, k \in 1..Len(req.select) :
               /\ InclusionField(req.select[j]) /\ ExclusionField(req.select[k])
               /\ NameOf(req.select[j]) # <<"__proto__">>
               /\ NameOf(req.select[k]) # <<"__proto__">>)
           => Rejected
        /\ opres.kind = "returned"
           => /\ AllEqual(opres.value.projection)
              /\ \A k \in 1..Len(opres.value.projection) :
                    opres.value.projection[k].mode \in {0, 1}

C14_Witness ==
    /\ Parsed
    /\ req.select = << <<"name">>, <<>>, <<"-", "email">> >>
    /\ req.page = "1" /\ req.size = "1" /\ req.filter = None
    /\ req.sort = None /\ req.populateSelect = None
    /\ Rejected

\* C17 (as claimed): a request whose size exceeds the maximum, whose size is
\* negative or whose page parses to a number below 1 is rejected with a bad
\* request error; an accepted request gets limit = size (the default when
\* size is absent or 0), a 0-based page and offset = page * limit.
C17_BadPaginationIsRejected ==
    Parsed =>
        LET p == ParseInt(req.page)
            z == ParseInt(req.size)
            size == IF z.nan \/ z.n = 0 THEN DEFAULT_PAGE_SIZE ELSE z.n
        IN  /\ (size > MAX_PAGINATION_SIZE \/ size < 0 \/ (~p.nan /\ p.n < 1))
               => Rejected
            /\ opres.kind = "returned"
               => /\ opres.value.limit = size
                  /\ opres.value.page >= 0
                  /\ opres.value.offset = opres.value.page * opres.value.limit
                  /\ opres.value.limit <= MAX_PAGINATION_SIZE

\* C17 (amended): the page rejected is the negative one; page 0, like an absent
\* page, is read as page 1.
C17_NegativePaginationIsRejected ==
    Parsed =>
        LET p == ParseInt(req.page)
            z == ParseInt(req.size)
            size == IF z.nan \/ z.n = 0 THEN DEFAULT_PAGE_SIZE ELSE z.n
            page == IF p.nan \/ p.n = 0 THEN 1 ELSE p.n
        IN  /\ (size > MAX_PAGINATION_SIZE \/ size < 0 \/ page < 0)
               => Rejected
            /\ opres.kind = "returned"
               => /\ opres.value.limit = size
                  /\ opres.value.size = size
                  /\ opres.value.page = page - 1
                  /\ opres.value.page >= 0
                  /\ opres.value.offset = opres.value.page * opres.value.limit
                  /\ opres.value.limit <= MAX_PAGINATION_SIZE

C17_Witness ==
    /\ Parsed
    /\ ~ParseInt(req.size).nan
    /\ ParseInt(req.size).n > MAX_PAGINATION_SIZE
    /\ req.page = "2" /\ req.sort = None /\ req.populateSelect = None
    /\ Rejected
    /\ opres.exc.response
         = "Invalid pagination params: Max size is " \o ToString(MAX_PAGINATION_SIZE)

----------------------------------------------------------------------------
(* Claims about the in-memory UsersService, checked under SpecUsers *)

HasId(list, id) == \E k \in 1..Len(list) : list[k].id = id

\* C22 (as claimed): after any sequence of create, updateUser and deleteUser
\* calls no two users of the list have the same id; and a deleteUser or an
\* updateUser on an id that is not in the list returns null and leaves the
\* list unchanged.
C22_IdsAreUnique ==
    /\ [](\A j, k \in 1..Len(users) : users[j].id = users[k].id => j = k)
    /\ [][/\ (opres'.op = "deleteUser" /\ ~HasId(users, opres'.in))
             => (users' = users /\ opres'.value = Null)
          /\ (opres'.op = "updateUser" /\ ~HasId(users, opres'.in.id))
             => (users' = users /\ opres'.value = Null)]_vars

====
